---- MODULE Spec2Model ----
(***************************************************************************)
(* A model of the MLX90393 magnetometer driver (Adafruit_MLX90393.cpp):    *)
(* the bus transaction primitive, the register access layer, the cached    *)
(* configuration, the mode commands and the measurement retrieval.         *)
(***************************************************************************)
EXTENDS Integers, Sequences, FiniteSets, TLC

(***************************************************************************)
(* Constants of Adafruit_MLX90393.h.  The header is not part of the        *)
(* sources at hand; the values are those of the vendor datasheet, which    *)
(* the specification names as the authority for the bit positions.         *)
(***************************************************************************)
MLX90393_CONF1 == 0
MLX90393_CONF2 == 1
MLX90393_CONF3 == 2
MLX90393_GAIN_SHIFT == 4
MLX90393_AXIS_ALL == 14
MLX90393_REG_SB == 16
MLX90393_REG_SM == 48
MLX90393_REG_RM == 64
MLX90393_REG_RR == 80
MLX90393_REG_WR == 96
MLX90393_REG_EX == 128
MLX90393_REG_RT == 240
MLX90393_STATUS_RESET == 4
MLX90393_STATUS_ERROR == 16
MLX90393_STATUS_SMMODE == 32
MLX90393_STATUS_WOC == 64
MLX90393_STATUS_BURSTMODE == 128
MLX90393_T == 1
MLX90393_X == 2
MLX90393_Y == 4
MLX90393_Z == 8
MLX90393_GAIN_1X == 7
MLX90393_RES_16 == 0
MLX90393_RES_18 == 2
MLX90393_RES_19 == 3
MLX90393_OSR_3 == 3
MLX90393_FILTER_7 == 7

\* mlx90393_tconv[DIG_FILT][OSR], in hundredths of a millisecond.
mlx90393_tconv ==
  << <<127, 184, 300, 530>>,
     <<146, 223, 376, 684>>,
     <<184, 300, 530, 991>>,
     <<261, 453, 837, 1605>>,
     <<415, 760, 1452, 2834>>,
     <<722, 1375, 2680, 5292>>,
     <<1336, 2604, 5138, 10207>>,
     <<2565, 5061, 10053, 20037>> >>

(***************************************************************************)
(* Machine arithmetic: the bitwise operators of C on non-negative          *)
(* integers, and the conversions to uint8_t, uint16_t and int16_t.         *)
(***************************************************************************)
RECURSIVE BitAnd(_, _)
BitAnd(a, b) ==
  IF a = 0 \/ b = 0 THEN 0
  ELSE (a % 2) * (b % 2) + 2 * BitAnd(a \div 2, b \div 2)

RECURSIVE BitOr(_, _)
BitOr(a, b) ==
  IF a = 0 THEN b
  ELSE IF b = 0 THEN a
  ELSE (IF a % 2 = 1 \/ b % 2 = 1 THEN 1 ELSE 0) + 2 * BitOr(a \div 2, b \div 2)

U8(v) == v % 256
U16(v) == v % 65536
I16(v) == ((v + 32768) % 65536) - 32768
\* x & ~m for a 16-bit x: the bits of x outside the mask m.
ClearBits(x, m) == BitAnd(x, 65535 - m)

RECURSIVE popcount(_)
popcount(a) == IF a = 0 THEN 0 ELSE (a % 2) + popcount(a \div 2)

(***************************************************************************)
(* State.  cache: the device handle's cached configuration.  hw: the       *)
(* sensor's registers CONF1..CONF3, behind the bus.  wrote: per register,  *)
(* the last word the driver put on the bus in an acknowledged              *)
(* WRITE-REGISTER request (-1: none yet).  log: the bus and delay calls of *)
(* the current public operation, in order.  ret: what the last public      *)
(* operation was given and returned.  prev: the same for the operation     *)
(* before it.  pc: 0 when no operation is running, else the step of _init  *)
(* that runs next.  nops: the number of public operations called so far.   *)
(* faults: the number of bus transactions that failed so far.              *)
(***************************************************************************)
VARIABLES cache, hw, wrote, log, ret, prev, pc, nops, faults

vars == <<cache, hw, wrote, log, ret, prev, pc, nops, faults>>

Regs == {MLX90393_CONF1, MLX90393_CONF2, MLX90393_CONF3}
Gains == 0..7
Resolutions == 0..3
Filters == 0..7
Oversamplings == 0..3

(***************************************************************************)
(* The bus collaborator and the sensor behind it.  One transaction's       *)
(* outcome o: ack (endTransmission returned 0), miss (how many of the      *)
(* requested bytes the transport did not deliver), sb (the status byte     *)
(* the sensor answers with), meas (the measurement bytes it holds).        *)
(***************************************************************************)
MaxMiss == 1
\* At most MaxFaults bus transactions fail in one run.
MaxFaults == 1
StatusBytes == {0, 3, 4, 16, 19, 20, 32, 36, 48, 64, 128, 136}
MeasSamples ==
  { <<16, 0, 32, 0, 48, 0>>, <<255, 255, 128, 0, 127, 255>> }
PowerOn == [r \in Regs |-> IF r = MLX90393_CONF1 THEN 12 ELSE 0]

Outcomes ==
  { [ack |-> FALSE, miss |-> 0, sb |-> 0, meas |-> <<>>] }
  \cup { [ack |-> TRUE, miss |-> m, sb |-> 0, meas |-> <<>>] : m \in 1..MaxMiss }
  \cup { [ack |-> TRUE, miss |-> 0, sb |-> s, meas |-> <<>>] : s \in StatusBytes }

\* The outcomes of a READ-MEASUREMENT transaction also choose the bytes read.
MeasOutcomes ==
  { [o EXCEPT !.meas = m] : o \in Outcomes, m \in MeasSamples }

\* The bytes the sensor holds ready after the request tx: the status byte,
\* then a register's word (READ-REGISTER) or n measurement bytes.
DevReply(tx, n, o, h) ==
  IF tx[1] = MLX90393_REG_RR /\ (tx[2] \div 4) \in Regs
    THEN <<o.sb, h[tx[2] \div 4] \div 256, h[tx[2] \div 4] % 256>>
    ELSE <<o.sb>> \o [i \in 1..n |-> IF i <= Len(o.meas) THEN o.meas[i] ELSE 0]

\* The registers after the sensor took the acknowledged request tx.
DevStore(tx, h) ==
  IF tx[1] = MLX90393_REG_WR /\ (tx[4] \div 4) \in Regs
    THEN [h EXCEPT ![tx[4] \div 4] = tx[2] * 256 + tx[3]]
  ELSE IF tx[1] = MLX90393_REG_RT THEN PowerOn
  ELSE h

\* The last word written to each register, after the acknowledged request tx.
NoteWrite(tx, w) ==
  IF tx[1] = MLX90393_REG_WR /\ (tx[4] \div 4) \in Regs
    THEN [w EXCEPT ![tx[4] \div 4] = tx[2] * 256 + tx[3]]
    ELSE w

\* A transaction that fails: the write is not acknowledged, bytes are
\* missing, or the sensor answers with the ERROR bit set.
Faulty(o) == ~o.ack \/ o.miss > 0 \/ BitAnd(o.sb, MLX90393_STATUS_ERROR) # 0

\* Entries of the log: a bus write of the bytes data (ok: acknowledged), a
\* delay of n hundredths of a millisecond, a bus read of n requested bytes
\* that delivered the bytes data (ok: all of them).
BusWrite(tx, ack) == [k |-> "write", data |-> tx, n |-> Len(tx), ok |-> ack]
Delay(cs) == [k |-> "delay", data |-> <<>>, n |-> cs, ok |-> TRUE]
BusRead(n, bytes) == [k |-> "read", data |-> bytes, n |-> n, ok |-> Len(bytes) = n]

(***************************************************************************)
(* transceive.  b is the bus state [hw, wrote, log, faults]; the result     *)
(* carries                                                                 *)
(* the returned status, the bytes stored into rxbuf (<<>> when rxbuf was   *)
(* not written) and the bus state after the call.  Delays are logged in    *)
(* hundredths of a millisecond.                                            *)
(***************************************************************************)
\* A transceive that goes on to the delay and the read after a write that
\* was not acknowledged.
transceiveReadingAfterNack(tx, rxlen, interdelay, o, b) ==
  LET rxlen1 == U8(rxlen + 1)
      got == IF o.miss >= rxlen1 THEN 0 ELSE rxlen1 - o.miss
      rxbuf2 == DevReply(tx, rxlen, o, b.hw)
      b1 == [hw |-> IF o.ack THEN DevStore(tx, b.hw) ELSE b.hw,
             wrote |-> IF o.ack THEN NoteWrite(tx, b.wrote) ELSE b.wrote,
             log |-> b.log \o <<BusWrite(tx, o.ack), Delay(100 * interdelay),
                                BusRead(rxlen1, SubSeq(rxbuf2, 1, got))>>,
             faults |-> b.faults + (IF Faulty(o) THEN 1 ELSE 0)]
  IN IF ~o.ack \/ got # rxlen1
       THEN [status |-> MLX90393_STATUS_ERROR, rx |-> <<>>, b |-> b1]
       ELSE [status |-> ClearBits(rxbuf2[1], 3),
             rx |-> [i \in 1..rxlen |-> rxbuf2[i + 1]],
             b |-> b1]

\* A transceive that, after a short read that delivered the status byte,
\* returns that status instead of ERROR.
transceiveTrustingShortRead(tx, rxlen, interdelay, o, b) ==
  IF ~o.ack
    THEN [status |-> MLX90393_STATUS_ERROR, rx |-> <<>>,
          b |-> [b EXCEPT !.log = @ \o <<BusWrite(tx, FALSE)>>,
                          !.faults = @ + 1]]
  ELSE
    LET rxlen1 == U8(rxlen + 1)
        got == IF o.miss >= rxlen1 THEN 0 ELSE rxlen1 - o.miss
        rxbuf2 == DevReply(tx, rxlen, o, b.hw)
        b1 == [hw |-> DevStore(tx, b.hw),
               wrote |-> NoteWrite(tx, b.wrote),
               log |-> b.log \o <<BusWrite(tx, TRUE), Delay(100 * interdelay),
                                  BusRead(rxlen1, SubSeq(rxbuf2, 1, got))>>,
               faults |-> b.faults + (IF Faulty(o) THEN 1 ELSE 0)]
    IN IF got = 0
         THEN [status |-> MLX90393_STATUS_ERROR, rx |-> <<>>, b |-> b1]
       ELSE IF got # rxlen1
         THEN [status |-> ClearBits(rxbuf2[1], 3), rx |-> <<>>, b |-> b1]
         ELSE [status |-> ClearBits(rxbuf2[1], 3),
               rx |-> [i \in 1..rxlen |-> rxbuf2[i + 1]],
               b |-> b1]

\* A transceive that returns the status shifted right by two bits.
transceiveShifting(tx, rxlen, interdelay, o, b) ==
  IF ~o.ack
    THEN [status |-> MLX90393_STATUS_ERROR, rx |-> <<>>,
          b |-> [b EXCEPT !.log = @ \o <<BusWrite(tx, FALSE)>>,
                          !.faults = @ + 1]]
  ELSE
    LET rxlen1 == U8(rxlen + 1)
        got == IF o.miss >= rxlen1 THEN 0 ELSE rxlen1 - o.miss
        rxbuf2 == DevReply(tx, rxlen, o, b.hw)
        b1 == [hw |-> DevStore(tx, b.hw),
               wrote |-> NoteWrite(tx, b.wrote),
               log |-> b.log \o <<BusWrite(tx, TRUE), Delay(100 * interdelay),
                                  BusRead(rxlen1, SubSeq(rxbuf2, 1, got))>>,
               faults |-> b.faults + (IF Faulty(o) THEN 1 ELSE 0)]
    IN IF got # rxlen1
         THEN [status |-> MLX90393_STATUS_ERROR, rx |-> <<>>, b |-> b1]
         ELSE [status |-> rxbuf2[1] \div 4,
               rx |-> [i \in 1..rxlen |-> rxbuf2[i + 1]],
               b |-> b1]

transceive(tx, rxlen, interdelay, o, b) ==
  IF ~o.ack
    THEN [status |-> MLX90393_STATUS_ERROR, rx |-> <<>>,
          b |-> [b EXCEPT !.log = @ \o <<BusWrite(tx, FALSE)>>,
                          !.faults = @ + 1]]
  ELSE
    LET rxlen1 == U8(rxlen + 1)
        got == IF o.miss >= rxlen1 THEN 0 ELSE rxlen1 - o.miss
        rxbuf2 == DevReply(tx, rxlen, o, b.hw)
        b1 == [hw |-> DevStore(tx, b.hw),
               wrote |-> NoteWrite(tx, b.wrote),
               log |-> b.log \o <<BusWrite(tx, TRUE), Delay(100 * interdelay),
                                  BusRead(rxlen1, SubSeq(rxbuf2, 1, got))>>,
               faults |-> b.faults + (IF Faulty(o) THEN 1 ELSE 0)]
    IN IF got # rxlen1
         THEN [status |-> MLX90393_STATUS_ERROR, rx |-> <<>>, b |-> b1]
         ELSE [status |-> ClearBits(rxbuf2[1], 3),
               rx |-> [i \in 1..rxlen |-> rxbuf2[i + 1]],
               b |-> b1]

\* writeRegister: ok is the returned bool.
writeRegister(reg, data, o, b) ==
  LET tx == <<MLX90393_REG_WR, U8(data \div 256), U8(BitAnd(data, 255)),
              U8(reg * 4)>>
      t == transceive(tx, 0, 0, o, b)
  IN [ok |-> BitAnd(t.status, MLX90393_STATUS_ERROR) = 0, b |-> t.b]

\* A readRegister that clears *data when its transaction fails.
readRegisterClearing(reg, data0, o, b) ==
  LET tx == <<MLX90393_REG_RR, U8(reg * 4)>>
      t == transceive(tx, 2, 0, o, b)
  IN IF BitAnd(t.status, MLX90393_STATUS_ERROR) # 0
       THEN [ok |-> FALSE, data |-> 0, b |-> t.b]
       ELSE [ok |-> TRUE,
             data |-> BitOr(U16(t.rx[1] * 256), t.rx[2]),
             b |-> t.b]

\* readRegister: data0 is what *data held before the call, data what it
\* holds after it.
readRegister(reg, data0, o, b) ==
  LET tx == <<MLX90393_REG_RR, U8(reg * 4)>>
      t == transceive(tx, 2, 0, o, b)
  IN IF BitAnd(t.status, MLX90393_STATUS_ERROR) # 0
       THEN [ok |-> FALSE, data |-> data0, b |-> t.b]
       ELSE [ok |-> TRUE,
             data |-> BitOr(U16(t.rx[1] * 256), t.rx[2]),
             b |-> t.b]

(***************************************************************************)
(* Configuration.  Each setter takes the outcomes of its two bus           *)
(* transactions (o1: the register read, o2: the register write), the       *)
(* cache c and the bus state b, and yields the returned bool, the cache    *)
(* and the bus state after the call.                                       *)
(***************************************************************************)
\* A setGain that sets the gain bits without masking the old ones off.
setGainUnmasked(gain, o1, o2, c, b) ==
  LET c1 == [c EXCEPT !.gain = gain]
      r == readRegister(MLX90393_CONF1, 0, o1, b)
      data == BitOr(r.data, U16(gain * 2 ^ MLX90393_GAIN_SHIFT))
      w == writeRegister(MLX90393_CONF1, data, o2, r.b)
  IN [ok |-> w.ok, c |-> c1, b |-> w.b]

setGain(gain, o1, o2, c, b) ==
  LET c1 == [c EXCEPT !.gain = gain]
      r == readRegister(MLX90393_CONF1, 0, o1, b)
      data == BitOr(ClearBits(r.data, 112),
                    U16(gain * 2 ^ MLX90393_GAIN_SHIFT))
      w == writeRegister(MLX90393_CONF1, data, o2, r.b)
  IN [ok |-> w.ok, c |-> c1, b |-> w.b]

\* val is the returned gain.
getGain(o, c, b) ==
  LET r == readRegister(MLX90393_CONF1, 0, o, b)
  IN [val |-> BitAnd(r.data, 112) \div 16, c |-> c, b |-> r.b]

\* The axis is X, Y or Z; any other axis trips the assertion of the default
\* branch.
setResolution(axis, resolution, o1, o2, c, b) ==
  LET r == readRegister(MLX90393_CONF3, 0, o1, b)
      c1 == CASE axis = MLX90393_X -> [c EXCEPT !.res_x = resolution]
              [] axis = MLX90393_Y -> [c EXCEPT !.res_y = resolution]
              [] axis = MLX90393_Z -> [c EXCEPT !.res_z = resolution]
      data == CASE axis = MLX90393_X ->
                     BitOr(ClearBits(r.data, 96), U16(resolution * 32))
                [] axis = MLX90393_Y ->
                     BitOr(ClearBits(r.data, 384), U16(resolution * 128))
                [] axis = MLX90393_Z ->
                     BitOr(ClearBits(r.data, 1536), U16(resolution * 512))
      w == writeRegister(MLX90393_CONF3, data, o2, r.b)
  IN [ok |-> w.ok, c |-> c1, b |-> w.b]

getResolution(axis, c, b) ==
  [val |-> CASE axis = MLX90393_X -> c.res_x
             [] axis = MLX90393_Y -> c.res_y
             [] axis = MLX90393_Z -> c.res_z,
   c |-> c, b |-> b]

setFilter(filter, o1, o2, c, b) ==
  LET c1 == [c EXCEPT !.dig_filt = filter]
      r == readRegister(MLX90393_CONF3, 0, o1, b)
      data == BitOr(ClearBits(r.data, 28), U16(filter * 4))
      w == writeRegister(MLX90393_CONF3, data, o2, r.b)
  IN [ok |-> w.ok, c |-> c1, b |-> w.b]

\* A getFilter that takes the filter from CONF3 instead of the cache.
getFilterFromRegister(c, b) ==
  LET r == readRegister(MLX90393_CONF3, 0,
                        [ack |-> TRUE, miss |-> 0, sb |-> 0, meas |-> <<>>], b)
  IN [val |-> BitAnd(r.data, 28) \div 4, c |-> c, b |-> r.b]

getFilter(c, b) == [val |-> c.dig_filt, c |-> c, b |-> b]

setOversampling(oversampling, o1, o2, c, b) ==
  LET c1 == [c EXCEPT !.osr = oversampling]
      r == readRegister(MLX90393_CONF3, 0, o1, b)
      data == BitOr(ClearBits(r.data, 3), oversampling)
      w == writeRegister(MLX90393_CONF3, data, o2, r.b)
  IN [ok |-> w.ok, c |-> c1, b |-> w.b]

getOversampling(c, b) == [val |-> c.osr, c |-> c, b |-> b]

setTrigInt(state, o1, o2, c, b) ==
  LET r == readRegister(MLX90393_CONF2, 0, o1, b)
      data0 == ClearBits(r.data, 32768)
      data == IF state THEN BitOr(data0, 32768) ELSE data0
      w == writeRegister(MLX90393_CONF2, data, o2, r.b)
  IN [ok |-> w.ok, c |-> c, b |-> w.b]

\* The integer division of C++ truncates toward zero.
TruncDiv(a, d) == IF a >= 0 THEN a \div d ELSE -((-a) \div d)
clamp(v, lo, hi) == IF v < lo THEN lo ELSE IF hi < v THEN hi ELSE v

\* A setBurstRate that, as the other setters do, writes whatever the read
\* left in data.
setBurstRateUnchecked(delay_ms, o1, o2, c, b) ==
  LET delay_20ms == clamp(TruncDiv(delay_ms, 20), 0, 63)
      r == readRegister(MLX90393_CONF2, 0, o1, b)
      data == BitOr(ClearBits(r.data, 63), delay_20ms)
      w == writeRegister(MLX90393_CONF2, data, o2, r.b)
  IN [ok |-> w.ok, c |-> c, b |-> w.b]

setBurstRate(delay_ms, o1, o2, c, b) ==
  LET delay_20ms == clamp(TruncDiv(delay_ms, 20), 0, 63)
      r == readRegister(MLX90393_CONF2, 0, o1, b)
  IN IF ~r.ok
       THEN [ok |-> FALSE, c |-> c, b |-> r.b]
       ELSE LET data == BitOr(ClearBits(r.data, 63), delay_20ms)
                w == writeRegister(MLX90393_CONF2, data, o2, r.b)
            IN [ok |-> w.ok, c |-> c, b |-> w.b]

(***************************************************************************)
(* Mode commands.  status is what transceive returned.                     *)
(***************************************************************************)
\* An exitMode whose mask leaves out the WOC bit.
exitModeIgnoringWoc(o, c, b) ==
  LET t == transceive(<<MLX90393_REG_EX>>, 0, 0, o, b)
      mask == BitOr(BitOr(MLX90393_STATUS_BURSTMODE, MLX90393_STATUS_SMMODE),
                    MLX90393_STATUS_ERROR)
  IN [ok |-> BitAnd(t.status, mask) = 0, status |-> t.status,
      c |-> c, b |-> t.b]

exitMode(o, c, b) ==
  LET t == transceive(<<MLX90393_REG_EX>>, 0, 0, o, b)
      mask == BitOr(BitOr(MLX90393_STATUS_BURSTMODE, MLX90393_STATUS_SMMODE),
                    BitOr(MLX90393_STATUS_WOC, MLX90393_STATUS_ERROR))
  IN [ok |-> BitAnd(t.status, mask) = 0, status |-> t.status,
      c |-> c, b |-> t.b]

\* A reset that tests the RESET bit instead of comparing the status.
resetTestingBit(o, c, b) ==
  LET t == transceive(<<MLX90393_REG_RT>>, 0, 5, o, b)
  IN [ok |-> BitAnd(t.status, MLX90393_STATUS_RESET) # 0, status |-> t.status,
      c |-> c, b |-> t.b]

reset(o, c, b) ==
  LET t == transceive(<<MLX90393_REG_RT>>, 0, 5, o, b)
  IN [ok |-> t.status = MLX90393_STATUS_RESET, status |-> t.status,
      c |-> c, b |-> t.b]

\* A startBurstMode without the test of bit 3.
startBurstModeIgnoringBit3(axes, o, c, b) ==
  LET t == transceive(<<U8(BitOr(MLX90393_REG_SB, axes))>>, 0, 0, o, b)
  IN [ok |-> BitAnd(t.status, MLX90393_STATUS_BURSTMODE) # 0,
      status |-> t.status, c |-> c, b |-> t.b]

startBurstMode(axes, o, c, b) ==
  LET t == transceive(<<U8(BitOr(MLX90393_REG_SB, axes))>>, 0, 0, o, b)
  IN [ok |-> IF BitAnd(t.status, MLX90393_STATUS_BURSTMODE) = 0 THEN FALSE
             ELSE IF BitAnd(t.status, 8) # 0 THEN FALSE
             ELSE TRUE,
      status |-> t.status, c |-> c, b |-> t.b]

\* A startSingleMeasurement that takes only the status 0 for success.
startSingleMeasurementStrict(o, c, b) ==
  LET t == transceive(<<BitOr(MLX90393_REG_SM, MLX90393_AXIS_ALL)>>, 0, 0, o, b)
  IN [ok |-> t.status = 0, status |-> t.status, c |-> c, b |-> t.b]

startSingleMeasurement(o, c, b) ==
  LET t == transceive(<<BitOr(MLX90393_REG_SM, MLX90393_AXIS_ALL)>>, 0, 0, o, b)
  IN [ok |-> BitAnd(t.status, MLX90393_STATUS_ERROR) = 0
             \/ t.status = MLX90393_STATUS_SMMODE,
      status |-> t.status, c |-> c, b |-> t.b]

(***************************************************************************)
(* Measurement.  A converted value (float)cnt * mlx90393_lsb_lookup[0][g]  *)
(* [r][z] is kept as its factors [cnt, g, r, z].  out0 is what the         *)
(* caller's outputs held before the call, out what they hold after it.     *)
(***************************************************************************)
Scaled(cnt, g, r, z) == [cnt |-> cnt, g |-> g, r |-> r, z |-> z]

\* The int16_t assembled from two received bytes.
Word(hi, lo) == I16(BitOr(hi * 256, lo))

resFromAxis(axis, c) ==
  CASE axis = MLX90393_X -> c.res_x
    [] axis = MLX90393_Y -> c.res_y
    [] axis = MLX90393_Z -> c.res_z

\* A measurementToFloat that corrects the 19-bit resolution as the 18-bit one.
measurementToFloatOneOffset(axis, raw, c) ==
  LET res == resFromAxis(axis, c)
      raw1 == IF res = MLX90393_RES_18 \/ res = MLX90393_RES_19
                THEN I16(raw - 32768)
                ELSE raw
  IN Scaled(raw1, c.gain, res, IF axis = MLX90393_Z THEN 1 ELSE 0)

measurementToFloat(axis, raw, c) ==
  LET res == resFromAxis(axis, c)
      raw1 == IF res = MLX90393_RES_18 THEN I16(raw - 32768)
              ELSE IF res = MLX90393_RES_19 THEN I16(raw - 16384)
              ELSE raw
  IN Scaled(raw1, c.gain, res, IF axis = MLX90393_Z THEN 1 ELSE 0)

\* A readMeasurement whose xi, yi, zi are int, not int16_t.
readMeasurementWide(out0, o, c, b) ==
  LET t == transceive(<<BitOr(MLX90393_REG_RM, MLX90393_AXIS_ALL)>>, 6, 0, o, b)
  IN IF BitAnd(t.status, MLX90393_STATUS_ERROR) # 0
       THEN [ok |-> FALSE, out |-> out0, c |-> c, b |-> t.b]
       ELSE
         LET xi0 == Word(t.rx[1], t.rx[2])
             yi0 == Word(t.rx[3], t.rx[4])
             zi0 == Word(t.rx[5], t.rx[6])
             xi1 == IF c.res_x = MLX90393_RES_18 THEN xi0 - 32768 ELSE xi0
             xi == IF c.res_x = MLX90393_RES_19 THEN xi1 - 16384 ELSE xi1
             yi1 == IF c.res_y = MLX90393_RES_18 THEN yi0 - 32768 ELSE yi0
             yi == IF c.res_y = MLX90393_RES_19 THEN yi1 - 16384 ELSE yi1
             zi1 == IF c.res_z = MLX90393_RES_18 THEN zi0 - 32768 ELSE zi0
             zi == IF c.res_z = MLX90393_RES_19 THEN zi1 - 16384 ELSE zi1
         IN [ok |-> TRUE,
             out |-> <<Scaled(xi, c.gain, c.res_x, 0),
                       Scaled(yi, c.gain, c.res_y, 0),
                       Scaled(zi, c.gain, c.res_z, 1)>>,
             c |-> c, b |-> t.b]

\* readMeasurement(float *x, float *y, float *z)
readMeasurement(out0, o, c, b) ==
  LET t == transceive(<<BitOr(MLX90393_REG_RM, MLX90393_AXIS_ALL)>>, 6, 0, o, b)
  IN IF BitAnd(t.status, MLX90393_STATUS_ERROR) # 0
       THEN [ok |-> FALSE, out |-> out0, c |-> c, b |-> t.b]
       ELSE
         LET xi0 == Word(t.rx[1], t.rx[2])
             yi0 == Word(t.rx[3], t.rx[4])
             zi0 == Word(t.rx[5], t.rx[6])
             xi1 == IF c.res_x = MLX90393_RES_18 THEN I16(xi0 - 32768) ELSE xi0
             xi == IF c.res_x = MLX90393_RES_19 THEN I16(xi1 - 16384) ELSE xi1
             yi1 == IF c.res_y = MLX90393_RES_18 THEN I16(yi0 - 32768) ELSE yi0
             yi == IF c.res_y = MLX90393_RES_19 THEN I16(yi1 - 16384) ELSE yi1
             zi1 == IF c.res_z = MLX90393_RES_18 THEN I16(zi0 - 32768) ELSE zi0
             zi == IF c.res_z = MLX90393_RES_19 THEN I16(zi1 - 16384) ELSE zi1
         IN [ok |-> TRUE,
             out |-> <<Scaled(xi, c.gain, c.res_x, 0),
                       Scaled(yi, c.gain, c.res_y, 0),
                       Scaled(zi, c.gain, c.res_z, 1)>>,
             c |-> c, b |-> t.b]

\* The bytes of the local buffer std::array<uint8_t, 8> rx.
RxSize == 8

\* readMeasurement(uint8_t axes, std::span<float> result): out0 is the
\* result buffer, Len(out0) its size.  overrun: transceive stored rxlen
\* bytes through rx.data() and rxlen is more than rx holds; what the call
\* returns and leaves in result is then undefined (see Builds); ok and out
\* are what it yields when the bytes beyond rx are stored and read as if rx
\* were long enough.
readMeasurementAxes(axes, out0, o, c, b) ==
  IF BitAnd(axes, MLX90393_T) # 0
    THEN [ok |-> FALSE, out |-> out0, overrun |-> FALSE, c |-> c, b |-> b]
  ELSE IF popcount(axes) > Len(out0)
    THEN [ok |-> FALSE, out |-> out0, overrun |-> FALSE, c |-> c, b |-> b]
  ELSE
    LET naxes == popcount(axes)
        rxlen == 2 * naxes
        t == transceive(<<U8(BitOr(MLX90393_REG_RM, axes))>>, rxlen, 0, o, b)
        sel == SelectSeq(<<MLX90393_X, MLX90393_Y, MLX90393_Z>>,
                         LAMBDA a : BitAnd(axes, a) # 0)
    IN IF BitAnd(t.status, MLX90393_STATUS_ERROR) # 0
         THEN [ok |-> FALSE, out |-> out0,
               overrun |-> Len(t.rx) > RxSize, c |-> c, b |-> t.b]
         ELSE [ok |-> TRUE,
               out |-> [i \in 1..Len(out0) |->
                          IF i <= Len(sel)
                            THEN measurementToFloat(
                                   sel[i], Word(t.rx[2 * i - 1], t.rx[2 * i]), c)
                            ELSE out0[i]],
               overrun |-> Len(t.rx) > RxSize, c |-> c, b |-> t.b]

\* What a build may make of the result r of a call: r itself, or, after an
\* overrun of rx, also a call that fails or that leaves result untouched.
Builds(r, out0) ==
  IF r.overrun
    THEN {r, [r EXCEPT !.ok = FALSE], [r EXCEPT !.out = out0]}
    ELSE {r}

\* The argument of the delay between trigger and readback, in hundredths of
\* a millisecond.
ConversionWait(c) == mlx90393_tconv[c.dig_filt + 1][c.osr + 1] + 1000

\* A readData that does not look at what startSingleMeasurement returned.
readDataUnchecked(out0, o1, o2, c, b) ==
  LET s == startSingleMeasurement(o1, c, b)
  IN readMeasurement(
       out0, o2, c,
       [s.b EXCEPT !.log = @ \o <<Delay(ConversionWait(c))>>])

\* readData(float *x, float *y, float *z)
readData(out0, o1, o2, c, b) ==
  LET s == startSingleMeasurement(o1, c, b)
  IN IF ~s.ok
       THEN [ok |-> FALSE, out |-> out0, c |-> c, b |-> s.b]
       ELSE readMeasurement(
              out0, o2, c,
              [s.b EXCEPT !.log = @ \o <<Delay(ConversionWait(c))>>])

\* readData(uint8_t axes, std::span<float> result)
readDataAxes(axes, out0, o1, o2, c, b) ==
  LET s == startSingleMeasurement(o1, c, b)
  IN IF ~s.ok
       THEN [ok |-> FALSE, out |-> out0, overrun |-> FALSE, c |-> c, b |-> s.b]
       ELSE readMeasurementAxes(
              axes, out0, o2, c,
              [s.b EXCEPT !.log = @ \o <<Delay(ConversionWait(c))>>])

(***************************************************************************)
(* _init (called by begin_I2C), one step per action.  Step k of _init,     *)
(* given the outcomes of its bus transactions.                             *)
(***************************************************************************)
InitSteps == 9

initStep(k, o1, o2, c, b) ==
  CASE k = 1 -> exitMode(o1, c, b)
    [] k = 2 -> reset(o1, c, b)
    [] k = 3 -> setGain(MLX90393_GAIN_1X, o1, o2, c, b)
    [] k = 4 -> setResolution(MLX90393_X, MLX90393_RES_16, o1, o2, c, b)
    [] k = 5 -> setResolution(MLX90393_Y, MLX90393_RES_16, o1, o2, c, b)
    [] k = 6 -> setResolution(MLX90393_Z, MLX90393_RES_16, o1, o2, c, b)
    [] k = 7 -> setOversampling(MLX90393_OSR_3, o1, o2, c, b)
    [] k = 8 -> setFilter(MLX90393_FILTER_7, o1, o2, c, b)
    [] k = 9 -> setTrigInt(FALSE, o1, o2, c, b)

\* The number of bus transactions step k of _init makes.
InitStepTransactions(k) == IF k <= 2 THEN 1 ELSE 2

(***************************************************************************)
(* The state machine.                                                      *)
(***************************************************************************)
\* The outputs of a measurement before the call: values no conversion gives.
Stale == Scaled(0, -1, -1, -1)
Stale3 == <<Stale, Stale, Stale>>

NoOp == [op |-> "none", arg |-> <<>>, ok |-> TRUE]
Brief(r) == [op |-> r.op, arg |-> r.arg, ok |-> r.ok]
Bus == [hw |-> hw, wrote |-> wrote, log |-> <<>>, faults |-> faults]

\* A public operation op(arg) ran to its end with result r: the returned
\* bool ok, the returned value val, the outputs out.
Return(op, arg, r, ok, val, out) ==
  /\ r.b.faults <= MaxFaults
  /\ faults' = r.b.faults
  /\ cache' = r.c
  /\ hw' = r.b.hw
  /\ wrote' = r.b.wrote
  /\ log' = r.b.log
  /\ ret' = [op |-> op, arg |-> arg, ok |-> ok, val |-> val,
             before |-> cache, hw0 |-> hw, out |-> out]
  /\ prev' = Brief(ret)
  /\ nops' = nops + 1
  /\ pc' = 0

CacheSamples ==
  { [gain |-> 7, res_x |-> 0, res_y |-> 0, res_z |-> 0, dig_filt |-> 7, osr |-> 3],
    [gain |-> 2, res_x |-> 3, res_y |-> 1, res_z |-> 2, dig_filt |-> 5, osr |-> 1] }
HwSamples ==
  { PowerOn,
    [r \in Regs |-> CASE r = MLX90393_CONF1 -> 42365
                      [] r = MLX90393_CONF2 -> 43690
                      [] r = MLX90393_CONF3 -> 64221],
    [r \in Regs |-> 65535] }

Fresh ==
  /\ cache \in CacheSamples
  /\ hw \in HwSamples
  /\ wrote = [r \in Regs |-> -1]
  /\ log = <<>>
  /\ ret = [op |-> "none", arg |-> <<>>, ok |-> TRUE, val |-> 0,
            before |-> cache, hw0 |-> hw, out |-> <<>>]
  /\ prev = NoOp
  /\ pc = 0
  /\ nops = 0
  /\ faults = 0

\* A handle in use: begin_I2C returned some time ago; the cache is one of C
\* and the registers hold one of H.
InUse(C, H) ==
  /\ cache \in C
  /\ hw \in H
  /\ wrote = [r \in Regs |-> -1]
  /\ log = <<>>
  /\ ret = [op |-> "begun", arg |-> <<>>, ok |-> TRUE, val |-> 0,
            before |-> cache, hw0 |-> hw, out |-> <<>>]
  /\ prev = NoOp
  /\ pc = 0
  /\ nops = 0
  /\ faults = 0

\* The outcomes of a register transaction (the status bytes a register
\* command is answered with), of a measurement trigger and of a measurement
\* readback (only a readback that succeeds delivers measurement bytes).
RegStatusBytes == {0, 19}
TrigStatusBytes == {0, 19, 32, 48}
RegOutcomes == { o \in Outcomes : o.miss > 0 \/ o.sb \in RegStatusBytes }
TrigOutcomes == { o \in Outcomes : o.miss > 0 \/ o.sb \in TrigStatusBytes }
ReadbackOutcomes ==
  { o \in RegOutcomes : ~o.ack \/ o.miss > 0 \/ BitAnd(o.sb, 16) # 0 }
  \cup { o \in MeasOutcomes : o.ack /\ o.miss = 0 /\ o.sb \in {0, 3} }

\* begin_I2C: the call, up to the first step of _init.
Begin ==
  /\ pc = 0
  /\ pc' = 1
  /\ log' = <<>>
  /\ ret' = [op |-> "init", arg |-> <<0>>, ok |-> FALSE, val |-> 0,
             before |-> cache, hw0 |-> hw, out |-> <<>>]
  /\ prev' = Brief(ret)
  /\ nops' = nops + 1
  /\ UNCHANGED <<cache, hw, wrote, faults>>

\* One step of _init; ret.arg names the step that failed (0: none).
InitStep ==
  /\ pc \in 1..InitSteps
  /\ \E o1 \in (IF InitStepTransactions(pc) = 1 THEN Outcomes ELSE RegOutcomes),
        o2 \in RegOutcomes :
       \E r \in { initStep(pc, o1, o2, cache,
                             [hw |-> hw, wrote |-> wrote, log |-> log,
                              faults |-> faults]) } :
          /\ r.b.faults <= MaxFaults
          /\ faults' = r.b.faults
          /\ cache' = r.c
          /\ hw' = r.b.hw
          /\ wrote' = r.b.wrote
          /\ log' = r.b.log
          /\ pc' = IF r.ok /\ pc < InitSteps THEN pc + 1 ELSE 0
          /\ ret' = IF ~r.ok THEN [ret EXCEPT !.arg = <<pc>>]
                    ELSE IF pc = InitSteps THEN [ret EXCEPT !.ok = TRUE]
                    ELSE ret
  /\ UNCHANGED <<prev, nops>>

SetGain ==
  /\ pc = 0
  /\ \E gain \in Gains, o1 \in RegOutcomes, o2 \in RegOutcomes :
       \E r \in { setGain(gain, o1, o2, cache, Bus) } :
          Return("setGain", <<gain>>, r, r.ok, 0, <<>>)

GetGain ==
  /\ pc = 0
  /\ \E o \in RegOutcomes :
       \E r \in { getGain(o, cache, Bus) } :
          Return("getGain", <<>>, r, TRUE, r.val, <<>>)

SetResolution ==
  /\ pc = 0
  /\ \E axis \in {MLX90393_X, MLX90393_Y, MLX90393_Z},
        resolution \in Resolutions, o1 \in RegOutcomes, o2 \in RegOutcomes :
       \E r \in { setResolution(axis, resolution, o1, o2, cache, Bus) } :
          Return("setResolution", <<axis, resolution>>, r, r.ok, 0, <<>>)

GetResolution ==
  /\ pc = 0
  /\ \E axis \in {MLX90393_X, MLX90393_Y, MLX90393_Z} :
       \E r \in { getResolution(axis, cache, Bus) } :
          Return("getResolution", <<axis>>, r, TRUE, r.val, <<>>)

SetFilter ==
  /\ pc = 0
  /\ \E filter \in Filters, o1 \in RegOutcomes, o2 \in RegOutcomes :
       \E r \in { setFilter(filter, o1, o2, cache, Bus) } :
          Return("setFilter", <<filter>>, r, r.ok, 0, <<>>)

GetFilter ==
  /\ pc = 0
  /\ \E r \in { getFilter(cache, Bus) } :
        Return("getFilter", <<>>, r, TRUE, r.val, <<>>)

SetOversampling ==
  /\ pc = 0
  /\ \E oversampling \in Oversamplings, o1 \in RegOutcomes, o2 \in RegOutcomes :
       \E r \in { setOversampling(oversampling, o1, o2, cache, Bus) } :
          Return("setOversampling", <<oversampling>>, r, r.ok, 0, <<>>)

GetOversampling ==
  /\ pc = 0
  /\ \E r \in { getOversampling(cache, Bus) } :
        Return("getOversampling", <<>>, r, TRUE, r.val, <<>>)

SetTrigInt ==
  /\ pc = 0
  /\ \E state \in BOOLEAN, o1 \in RegOutcomes, o2 \in RegOutcomes :
       \E r \in { setTrigInt(state, o1, o2, cache, Bus) } :
          Return("setTrigInt", <<IF state THEN 1 ELSE 0>>, r, r.ok, 0, <<>>)

\* setBurstRate with delay_ms drawn from D.
SetBurstRate(D) ==
  /\ pc = 0
  /\ \E delay_ms \in D, o1 \in RegOutcomes, o2 \in RegOutcomes :
       \E r \in { setBurstRate(delay_ms, o1, o2, cache, Bus) } :
          Return("setBurstRate", <<delay_ms>>, r, r.ok, 0, <<>>)

ExitMode ==
  /\ pc = 0
  /\ \E o \in Outcomes :
       \E r \in { exitMode(o, cache, Bus) } :
          Return("exitMode", <<>>, r, r.ok, r.status, <<>>)

Reset ==
  /\ pc = 0
  /\ \E o \in Outcomes :
       \E r \in { reset(o, cache, Bus) } :
          Return("reset", <<>>, r, r.ok, r.status, <<>>)

AxesSamples == {MLX90393_X, 10, MLX90393_AXIS_ALL, 3, 15, 0}

StartBurstMode ==
  /\ pc = 0
  /\ \E axes \in AxesSamples, o \in Outcomes :
       \E r \in { startBurstMode(axes, o, cache, Bus) } :
          Return("startBurstMode", <<axes>>, r, r.ok, r.status, <<>>)

StartSingleMeasurement ==
  /\ pc = 0
  /\ \E o \in Outcomes :
       \E r \in { startSingleMeasurement(o, cache, Bus) } :
          Return("startSingleMeasurement", <<>>, r, r.ok, r.status, <<>>)

ReadData ==
  /\ pc = 0
  /\ \E o1 \in TrigOutcomes, o2 \in ReadbackOutcomes :
       \E r \in { readData(Stale3, o1, o2, cache, Bus) } :
          Return("readData", <<>>, r, r.ok, 0, r.out)

\* The sizes of the result buffers handed to readData(axes, result).
MaxSize == 3

ReadDataAxes ==
  /\ pc = 0
  /\ \E axes \in AxesSamples, size \in 0..MaxSize,
        o1 \in TrigOutcomes, o2 \in ReadbackOutcomes :
       \E r \in Builds(readDataAxes(axes, [i \in 1..size |-> Stale], o1, o2,
                                    cache, Bus),
                       [i \in 1..size |-> Stale]) :
          Return("readDataAxes", <<axes, size>>, r, r.ok, 0, r.out)

\* readRegister called directly, *data holding data0 before the call; val
\* is what it holds after it.
DataSamples == {0, 43981, 65535}

ReadRegister ==
  /\ pc = 0
  /\ \E reg \in Regs, data0 \in DataSamples, o \in Outcomes :
       \E r \in { readRegister(reg, data0, o, Bus) } :
          Return("readRegister", <<reg, data0>>, [c |-> cache, b |-> r.b],
                 r.ok, r.data, <<>>)

(***************************************************************************)
(* Spec: a handle is constructed, begin_I2C is called on it, and then at   *)
(* most MaxOps further public operations.                                  *)
(***************************************************************************)
MaxOps == 1
DelaySamples == {-30, 0, 19, 40, 1270}

\* begin_I2C was called and returned, and another operation may be called.
Called == pc = 0 /\ ret.op # "none" /\ nops <= MaxOps

Init == Fresh

Next ==
  \/ ret.op = "none" /\ Begin
  \/ InitStep
  \/ Called /\ SetGain
  \/ Called /\ GetGain
  \/ Called /\ SetResolution
  \/ Called /\ GetResolution
  \/ Called /\ SetFilter
  \/ Called /\ GetFilter
  \/ Called /\ SetOversampling
  \/ Called /\ GetOversampling
  \/ Called /\ SetTrigInt
  \/ Called /\ SetBurstRate(DelaySamples)
  \/ Called /\ ExitMode
  \/ Called /\ Reset
  \/ Called /\ StartBurstMode
  \/ Called /\ StartSingleMeasurement
  \/ Called /\ ReadData
  \/ Called /\ ReadDataAxes

Spec == Init /\ [][Next]_vars

\* The first operation on a handle in use.
First == pc = 0 /\ ret.op = "begun"

(***************************************************************************)
(* SpecCfg: the configuration.  Either begin_I2C and then getters, or, on  *)
(* a handle in use, one setter with any value and then getters.            *)
(***************************************************************************)
InitCfg == Fresh \/ InUse(CacheSamples, HwSamples)

NextCfg ==
  \/ ret.op = "none" /\ Begin
  \/ InitStep
  \/ First /\ SetGain
  \/ First /\ SetResolution
  \/ First /\ SetFilter
  \/ First /\ SetOversampling
  \/ Called /\ GetGain
  \/ Called /\ GetResolution
  \/ Called /\ GetFilter
  \/ Called /\ GetOversampling

SpecCfg == InitCfg /\ [][NextCfg]_vars

(***************************************************************************)
(* SpecRead: readData(x, y, z) on a handle in use, for every cached filter *)
(* and oversampling and every resolution of the X axis.                    *)
(***************************************************************************)
ReadCaches ==
  { [gain |-> 7, res_x |-> r, res_y |-> 3 - r, res_z |-> (r + 2) % 4,
     dig_filt |-> f, osr |-> o] :
      r \in Resolutions, f \in Filters, o \in Oversamplings }

InitRead == InUse(ReadCaches, {PowerOn})

NextRead == Called /\ ReadData

SpecRead == InitRead /\ [][NextRead]_vars

(***************************************************************************)
(* SpecMode: the mode commands on a handle in use.                         *)
(***************************************************************************)
InitMode == InUse(CacheSamples, {PowerOn})

NextMode ==
  \/ Called /\ ExitMode
  \/ Called /\ Reset
  \/ Called /\ StartBurstMode
  \/ Called /\ StartSingleMeasurement

SpecMode == InitMode /\ [][NextMode]_vars

(***************************************************************************)
(* SpecBurst: setBurstRate with every delay of -MaxDelay..MaxDelay on a    *)
(* handle in use.                                                          *)
(***************************************************************************)
MaxDelay == 1300

InitBurst == InUse({CHOOSE c \in CacheSamples : c.gain = 7}, HwSamples)

NextBurst == First /\ SetBurstRate((0 - MaxDelay)..MaxDelay)

SpecBurst == InitBurst /\ [][NextBurst]_vars

(***************************************************************************)
(* SpecReg: readRegister on a handle in use.                               *)
(***************************************************************************)
InitReg == InUse(CacheSamples, HwSamples)

NextReg == First /\ ReadRegister

SpecReg == InitReg /\ [][NextReg]_vars

(***************************************************************************)
(* SpecMeas: the two readMeasurement variants called on a handle in use,   *)
(* for every combination of cached resolutions, two gains, words at the    *)
(* edges of the sign corrections on every axis, and axis masks inside and  *)
(* outside {X, Y, Z}.                                                      *)
(***************************************************************************)
MeasWords == {0, 16383, 16384, 32767, 32768, 49151, 49152, 65535}
\* The measurement bytes the sensor holds: three big-endian words, then the
\* bytes 1, 2, ... that a longer request reads on.
MeasBytes ==
  { <<w \div 256, w % 256,
      ((w + 16384) % 65536) \div 256, (w + 16384) % 256,
      ((w + 32768) % 65536) \div 256, w % 256>>
    \o [i \in 1..8 |-> i] : w \in MeasWords }
MeasReadOutcomes ==
  { o \in Outcomes : ~o.ack \/ o.miss > 0 \/ o.sb = 16 }
  \cup { [ack |-> TRUE, miss |-> 0, sb |-> s, meas |-> m] :
           s \in {0, 3}, m \in MeasBytes }
MeasCaches ==
  { [gain |-> g, res_x |-> rx, res_y |-> ry, res_z |-> rz,
     dig_filt |-> 7, osr |-> 3] :
      g \in {2, 7}, rx \in Resolutions, ry \in Resolutions, rz \in Resolutions }
\* Axis masks: the subsets of {X, Y, Z}, masks with the temperature bit, and
\* masks with bits 4..7.
MeasAxes ==
  { a \in 0..15 : a % 2 = 0 } \cup {1, 15} \cup {30, 62, 254}

ReadMeasurement ==
  /\ pc = 0
  /\ \E o \in MeasReadOutcomes :
       \E r \in { readMeasurement(Stale3, o, cache, Bus) } :
          Return("readMeasurement", <<>>, r, r.ok, 0, r.out)

ReadMeasurementAxes ==
  /\ pc = 0
  /\ \E axes \in MeasAxes, o \in MeasReadOutcomes :
       \E size \in {0, popcount(axes), MaxSize} :
         \E r \in Builds(readMeasurementAxes(axes, [i \in 1..size |-> Stale],
                                             o, cache, Bus),
                         [i \in 1..size |-> Stale]) :
            Return("readMeasurementAxes", <<axes, size>>, r, r.ok,
                   IF r.overrun THEN 1 ELSE 0, r.out)

InitMeas == InUse(MeasCaches, {PowerOn})

NextMeas ==
  \/ First /\ ReadMeasurement
  \/ First /\ ReadMeasurementAxes

SpecMeas == InitMeas /\ [][NextMeas]_vars

(***************************************************************************)
(* SpecBus: the transaction primitive and every operation that is one      *)
(* transaction, each called on a handle in use.  transceive is called with *)
(* rxlen up to MaxRxLen; out is the caller's rxbuf after the call, -1      *)
(* where it still holds what it held before.                               *)
(***************************************************************************)
MaxRxLen == 6
TxSamples ==
  { <<MLX90393_REG_EX>>, <<MLX90393_REG_RT>>,
    <<BitOr(MLX90393_REG_SM, MLX90393_AXIS_ALL)>>,
    <<BitOr(MLX90393_REG_RM, MLX90393_AXIS_ALL)>> }
BusOutcomes ==
  { [o EXCEPT !.meas = <<16, 32, 48, 64, 80, 96, 112>>] : o \in Outcomes }

Transceive ==
  /\ pc = 0
  /\ \E tx \in TxSamples, rxlen \in 0..MaxRxLen, interdelay \in {0, 5},
        o \in BusOutcomes :
       \E t \in { transceive(tx, rxlen, interdelay, o, Bus) } :
          Return("transceive", <<tx, rxlen, interdelay>>,
                 [c |-> cache, b |-> t.b],
                 BitAnd(t.status, MLX90393_STATUS_ERROR) = 0, t.status,
                 IF t.rx = <<>> THEN [i \in 1..rxlen |-> -1] ELSE t.rx)

WriteRegister ==
  /\ pc = 0
  /\ \E reg \in Regs, data \in DataSamples, o \in Outcomes :
       \E r \in { writeRegister(reg, data, o, Bus) } :
          Return("writeRegister", <<reg, data>>, [c |-> cache, b |-> r.b],
                 r.ok, 0, <<>>)

InitBus == InUse(CacheSamples, {PowerOn})

NextBus ==
  \/ First /\ Transceive
  \/ First /\ WriteRegister
  \/ First /\ ReadRegister
  \/ First /\ ExitMode
  \/ First /\ Reset
  \/ First /\ StartBurstMode
  \/ First /\ StartSingleMeasurement
  \/ First /\ ReadMeasurement
  \/ First /\ ReadMeasurementAxes

SpecBus == InitBus /\ [][NextBus]_vars

(***************************************************************************)
(* Reading the state: bit-fields of a register word, the transactions of   *)
(* the log.                                                                *)
(***************************************************************************)
Field(word, shift, width) == (word \div 2 ^ shift) % 2 ^ width

Setters == {"setGain", "setResolution", "setFilter", "setOversampling"}

\* The last operation is op and has returned.
Returned(op) == pc = 0 /\ ret.op = op

\* _init returned success, and at most one operation was called since.
Initialized ==
  pc = 0 /\ ((ret.op = "init" /\ ret.ok) \/ (prev.op = "init" /\ prev.ok))

\* The cached fields that register r holds agree with the word w.
CacheAgrees(c, r, w) ==
  /\ r = MLX90393_CONF1 => c.gain = Field(w, 4, 3)
  /\ r = MLX90393_CONF3 =>
       /\ c.res_x = Field(w, 5, 2)
       /\ c.res_y = Field(w, 7, 2)
       /\ c.res_z = Field(w, 9, 2)
       /\ c.dig_filt = Field(w, 2, 3)
       /\ c.osr = Field(w, 0, 2)

\* C1 (as claimed): once _init has succeeded, the cached gain, resolutions,
\* filter and oversampling equal the bit-fields of the word the driver last
\* wrote to CONF1 and to CONF3.
C1_CacheIsLastWritten ==
  Initialized =>
    \A r \in {MLX90393_CONF1, MLX90393_CONF3} :
      wrote[r] # -1 => CacheAgrees(cache, r, wrote[r])

\* C2 (as claimed): a setter that returns failure leaves the cached gain,
\* resolutions, filter and oversampling as they were before the call.
C2_FailedSetterKeepsCache ==
  (pc = 0 /\ ret.op \in Setters /\ ~ret.ok) => cache = ret.before

\* C5 (as claimed): _init returns failure whenever a bus transaction of one
\* of its steps failed.
C5_InitFailsOnAnyBusFailure ==
  (Returned("init") /\ faults > 0) => ~ret.ok

\* C7 (as claimed): readData(axes, result) with the temperature bit in axes,
\* or with fewer result slots than axes, returns failure with no bus
\* transaction, no delay and the result buffer unwritten.
C7_RejectedUpFront ==
  (Returned("readDataAxes")
     /\ (BitAnd(ret.arg[1], MLX90393_T) # 0 \/ ret.arg[2] < popcount(ret.arg[1])))
  => (~ret.ok /\ log = <<>> /\ \A i \in 1..Len(ret.out) : ret.out[i] = Stale)

\* The transaction whose bus write is entry i of the log l: the number of
\* its entries, and whether it failed (write not acknowledged, bytes
\* missing, or a status byte with the ERROR bit).
TxnLen(l, i) == IF l[i].ok THEN 3 ELSE 1
TxnFailed(l, i) ==
  \/ ~l[i].ok
  \/ ~l[i + 2].ok
  \/ Field(l[i + 2].data[1], 4, 1) = 1
\* The word of entry e, the bus write of a WRITE-REGISTER request.
WrittenWord(e) == e.data[2] * 256 + e.data[3]

\* C3 (amended): getFilter, getOversampling and getResolution make no bus
\* call and leave the handle and the registers as they were; getGain leaves
\* them as they were too and makes exactly one bus write, the READ-REGISTER
\* request for CONF1, followed, only if that write is acknowledged, by the
\* inter-delay and exactly one bus read of 3 bytes.
C3_Getters ==
  /\ (pc = 0 /\ ret.op \in {"getFilter", "getOversampling", "getResolution"})
       => (log = <<>> /\ cache = ret.before /\ hw = ret.hw0)
  /\ Returned("getGain") =>
       /\ cache = ret.before
       /\ hw = ret.hw0
       /\ Len(log) = TxnLen(log, 1)
       /\ log[1].k = "write"
       /\ log[1].data = <<MLX90393_REG_RR, 4 * MLX90393_CONF1>>
       /\ log[1].ok => (log[2] = Delay(0) /\ log[3].k = "read" /\ log[3].n = 3)

\* C3 (as claimed): every call of getGain makes one bus write and one bus
\* read.
C3_GetGainWritesAndReads ==
  Returned("getGain") =>
    /\ Cardinality({i \in 1..Len(log) : log[i].k = "write"}) = 1
    /\ Cardinality({i \in 1..Len(log) : log[i].k = "read"}) = 1

\* getGain, called right after a successful _init, made its one transaction.
C3_GetGainAfterInit ==
  Returned("getGain") /\ prev.op = "init" /\ prev.ok /\ Len(log) = 3

\* C4: when no bus transaction fails (every write acknowledged, every read
\* complete, no status with the ERROR bit) and the sensor stores what is
\* written, a setter called with v followed by the getter of the same field
\* returns v, whatever the registers and the cache held.
C4_RoundTrip ==
  (pc = 0 /\ faults = 0) =>
    /\ (ret.op = "getGain" /\ prev.op = "setGain") => ret.val = prev.arg[1]
    /\ (ret.op = "getResolution" /\ prev.op = "setResolution"
          /\ ret.arg[1] = prev.arg[1]) => ret.val = prev.arg[2]
    /\ (ret.op = "getFilter" /\ prev.op = "setFilter") => ret.val = prev.arg[1]
    /\ (ret.op = "getOversampling" /\ prev.op = "setOversampling")
         => ret.val = prev.arg[1]

\* setGain(3) and then getGain, on a CONF1 that held 0xA57D: the gain read
\* back is 3 and not the 7 of before.
C4_GainReadBack ==
  /\ Returned("getGain") /\ prev.op = "setGain" /\ prev.arg = <<3>>
  /\ faults = 0 /\ ret.val = 3
  /\ hw[MLX90393_CONF1] = 42365 - 112 + 48

\* C6: readData(x, y, z) first sends START-SINGLE-MEASUREMENT; if that
\* transaction fails it returns failure with nothing else on the bus and no
\* wait; otherwise it waits mlx90393_tconv[filter][oversampling] + 10 and
\* then sends READ-MEASUREMENT for 7 bytes, and returns success iff that
\* transaction does not fail.  Whenever it returns failure, x, y and z are
\* not written.
C6_ReadAllAxes ==
  Returned("readData") =>
    /\ log[1].k = "write"
    /\ log[1].data = <<MLX90393_REG_SM + MLX90393_AXIS_ALL>>
    /\ ~ret.ok => ret.out = Stale3
    /\ IF TxnFailed(log, 1)
         THEN ~ret.ok /\ Len(log) = TxnLen(log, 1)
         ELSE /\ log[4] = Delay(mlx90393_tconv[ret.before.dig_filt + 1]
                                              [ret.before.osr + 1] + 1000)
              /\ log[5].k = "write"
              /\ log[5].data = <<MLX90393_REG_RM + MLX90393_AXIS_ALL>>
              /\ Len(log) = 4 + TxnLen(log, 5)
              /\ log[5].ok => log[7].n = 7
              /\ ret.ok <=> ~TxnFailed(log, 5)

\* The trigger succeeded, the wait was made and the readback failed.
C6_ReadbackFailed ==
  /\ Returned("readData") /\ ~ret.ok /\ Len(log) = 7
  /\ ret.before.dig_filt = 7 /\ ret.before.osr = 3
  /\ log[4].n = 21037

\* C8: startSingleMeasurement makes exactly one transaction; it returns
\* success iff the status transceive returned has the ERROR bit clear or is
\* exactly SMMODE, that status being ERROR on a transport failure and else
\* the received status byte without its two low bits; called twice in a row
\* with no failed transaction (every write acknowledged, every read
\* complete, no status with the ERROR bit) it returns success both times.
C8_StartSingleMeasurement ==
  /\ Returned("startSingleMeasurement") =>
       /\ log[1].k = "write"
       /\ log[1].data = <<MLX90393_REG_SM + MLX90393_AXIS_ALL>>
       /\ Len(log) = TxnLen(log, 1)
       /\ ret.val = IF log[1].ok /\ log[3].ok
                      THEN 4 * (log[3].data[1] \div 4)
                      ELSE MLX90393_STATUS_ERROR
       /\ ret.ok <=> (Field(ret.val, 4, 1) = 0 \/ ret.val = MLX90393_STATUS_SMMODE)
  /\ (Returned("startSingleMeasurement") /\ prev.op = "startSingleMeasurement"
        /\ faults = 0) => (prev.ok /\ ret.ok)

\* The second of two calls in a row, answered with the SMMODE status.
C8_SecondTrigger ==
  /\ Returned("startSingleMeasurement") /\ prev.op = "startSingleMeasurement"
  /\ prev.ok /\ ret.ok /\ ret.val = MLX90393_STATUS_SMMODE

\* C9: setBurstRate(delay_ms) returns failure without a register write when
\* the register read fails; otherwise it writes CONF2 with bits 0..5 holding
\* 0 for delay_ms < 20, 63 for delay_ms > 1260 and delay_ms / 20 between,
\* and with bits 6..15 as the register held them.
C9_BurstRate ==
  Returned("setBurstRate") =>
    /\ log[1].data = <<MLX90393_REG_RR, 4 * MLX90393_CONF2>>
    /\ IF TxnFailed(log, 1)
         THEN ~ret.ok /\ Len(log) = TxnLen(log, 1) /\ hw = ret.hw0
         ELSE /\ log[4].k = "write"
              /\ log[4].data[1] = MLX90393_REG_WR
              /\ log[4].data[4] = 4 * MLX90393_CONF2
              /\ Field(WrittenWord(log[4]), 0, 6) =
                   (IF ret.arg[1] < 20 THEN 0
                    ELSE IF ret.arg[1] > 1260 THEN 63
                    ELSE ret.arg[1] \div 20)
              /\ Field(WrittenWord(log[4]), 6, 10) =
                   Field(ret.hw0[MLX90393_CONF2], 6, 10)

\* A negative delay wrote 0 over a burst rate of 42, and kept bits 6..15.
C9_NegativeDelay ==
  /\ Returned("setBurstRate") /\ ret.ok /\ ret.arg[1] = -25
  /\ ret.hw0[MLX90393_CONF2] = 43690
  /\ hw[MLX90393_CONF2] = 43648

\* C10: readRegister returns failure and leaves *data as it was when its
\* transaction fails (write not acknowledged, fewer than 3 bytes, ERROR
\* status); otherwise it returns success and *data is the second received
\* byte << 8 | the third.
C10_ReadRegister ==
  Returned("readRegister") =>
    /\ log[1].data = <<MLX90393_REG_RR, 4 * ret.arg[1]>>
    /\ IF TxnFailed(log, 1)
         THEN ~ret.ok /\ ret.val = ret.arg[2]
         ELSE ret.ok /\ ret.val = log[3].data[2] * 256 + log[3].data[3]

\* A read that came one byte short left data = 0xABCD in place.
C10_ShortRead ==
  /\ Returned("readRegister") /\ ~ret.ok /\ log[1].ok /\ ~log[3].ok
  /\ ret.arg[2] = 43981 /\ ret.val = 43981

\* The signed 16-bit value of the big-endian word whose bytes are hi, lo.
Signed(hi, lo) ==
  IF hi * 256 + lo >= 32768 THEN hi * 256 + lo - 65536 ELSE hi * 256 + lo
\* The sign correction of the resolution res.
Offset(res) ==
  IF res = MLX90393_RES_18 THEN 32768
  ELSE IF res = MLX90393_RES_19 THEN 16384
  ELSE 0

\* The bus read of the one transaction of a readMeasurement call.
MeasRead == log[3]
\* The k-th received payload word, signed.
RawWord(k) == Signed(MeasRead.data[2 * k], MeasRead.data[2 * k + 1])
\* The axes of the mask a, in the order X, Y, Z.
AxesOf(a) ==
  SelectSeq(<<MLX90393_X, MLX90393_Y, MLX90393_Z>>,
            LAMBDA x : (a \div x) % 2 = 1)
\* The last call was a readMeasurement of either variant, it returned true
\* and rx was not overrun; MeasAxesRead are the axes it converted.
MeasDone ==
  /\ pc = 0 /\ ret.ok
  /\ \/ ret.op = "readMeasurement"
     \/ ret.op = "readMeasurementAxes" /\ ret.val = 0
MeasAxesRead ==
  IF ret.op = "readMeasurement" THEN <<MLX90393_X, MLX90393_Y, MLX90393_Z>>
  ELSE AxesOf(ret.arg[1])

\* C11 (as claimed): in both readMeasurement variants the count of each
\* converted axis is the signed raw word minus 0x8000 at the 18-bit
\* resolution, minus 0x4000 at the 19-bit resolution and the signed raw
\* word otherwise, not wrapped to 16 bits; its scale factor is the entry
\* [0][gain][resolution of the axis][1 for Z, 0 for X and Y].
C11_SignCorrection ==
  MeasDone =>
    \A k \in 1..Len(MeasAxesRead) :
      LET res == resFromAxis(MeasAxesRead[k], ret.before)
      IN ret.out[k] = Scaled(RawWord(k) - Offset(res), ret.before.gain, res,
                             IF MeasAxesRead[k] = MLX90393_Z THEN 1 ELSE 0)

\* C11 (amended): in both readMeasurement variants the count of each
\* converted axis is the signed raw word minus 0x8000 at the 18-bit
\* resolution, minus 0x4000 at the 19-bit resolution and the signed raw
\* word otherwise, wrapped into the int16_t range -32768..32767; its scale
\* factor is the entry [0][gain][resolution of the axis][1 for Z, 0 for X
\* and Y].
C11_WrappedSignCorrection ==
  MeasDone =>
    \A k \in 1..Len(MeasAxesRead) :
      LET res == resFromAxis(MeasAxesRead[k], ret.before)
      IN /\ ret.out[k].cnt \in -32768..32767
         /\ (ret.out[k].cnt - (RawWord(k) - Offset(res))) % 65536 = 0
         /\ ret.out[k].g = ret.before.gain
         /\ ret.out[k].r = res
         /\ ret.out[k].z = IF MeasAxesRead[k] = MLX90393_Z THEN 1 ELSE 0

\* The X word 0x8000 read at the 19-bit resolution came out as 16384, and
\* the Z word 0x0000 at the 18-bit resolution as -32768.
C11_WrappedCount ==
  /\ Returned("readMeasurement") /\ ret.ok
  /\ RawWord(1) = -32768 /\ RawWord(3) = 0
  /\ ret.before.res_x = MLX90393_RES_19 /\ ret.out[1].cnt = 16384
  /\ ret.before.res_z = MLX90393_RES_18 /\ ret.out[3].cnt = -32768

\* The transport failed in the transaction whose bus write is entry i of
\* the log l: the write was not acknowledged or bytes were missing.
TransportFailed(l, i) == ~l[i].ok \/ ~l[i + 2].ok
\* The masked status of that transaction: the received status byte without
\* its two low bits.
MaskedStatus(l, i) == 4 * (l[i + 2].data[1] \div 4)

\* C12: exitMode makes exactly one transaction, sending the one byte EXIT;
\* on a transport failure it returns failure, and otherwise it returns
\* success iff the masked status has the BURSTMODE, SMMODE, WOC and ERROR
\* bits all clear.
C12_ExitMode ==
  Returned("exitMode") =>
    /\ log[1].k = "write" /\ log[1].data = <<MLX90393_REG_EX>>
    /\ Len(log) = TxnLen(log, 1)
    /\ cache = ret.before
    /\ IF TransportFailed(log, 1)
         THEN ~ret.ok
         ELSE ret.ok <=> /\ Field(MaskedStatus(log, 1), 7, 1) = 0
                         /\ Field(MaskedStatus(log, 1), 6, 1) = 0
                         /\ Field(MaskedStatus(log, 1), 5, 1) = 0
                         /\ Field(MaskedStatus(log, 1), 4, 1) = 0

\* exitMode returned failure on a status with only the WOC bit.
C12_WocRefused ==
  /\ Returned("exitMode") /\ ~ret.ok
  /\ ~TransportFailed(log, 1) /\ MaskedStatus(log, 1) = MLX90393_STATUS_WOC

\* C13: reset makes exactly one transaction, sending the one byte RESET with
\* an inter-delay of 5 ms; on a transport failure it returns failure, and
\* otherwise it returns success iff the masked status is exactly RESET.
C13_Reset ==
  Returned("reset") =>
    /\ log[1].k = "write" /\ log[1].data = <<MLX90393_REG_RT>>
    /\ Len(log) = TxnLen(log, 1)
    /\ log[1].ok => log[2] = Delay(500)
    /\ cache = ret.before
    /\ IF TransportFailed(log, 1)
         THEN ~ret.ok
         ELSE ret.ok <=> MaskedStatus(log, 1) = MLX90393_STATUS_RESET

\* reset returned failure on a status with the RESET bit and another bit.
C13_ResetAndMore ==
  /\ Returned("reset") /\ ~ret.ok /\ ~TransportFailed(log, 1)
  /\ Field(MaskedStatus(log, 1), 2, 1) = 1
  /\ MaskedStatus(log, 1) # MLX90393_STATUS_RESET

\* C14: startBurstMode(axes) makes exactly one transaction, sending the one
\* byte START-BURST | axes; on a transport failure it returns failure, and
\* otherwise it returns success iff the masked status has the BURSTMODE bit
\* set and bit 3 clear; it never changes a cached configuration value.
C14_StartBurst ==
  Returned("startBurstMode") =>
    /\ log[1].k = "write"
    /\ log[1].data = <<MLX90393_REG_SB + ret.arg[1]>>
    /\ Len(log) = TxnLen(log, 1)
    /\ cache = ret.before
    /\ IF TransportFailed(log, 1)
         THEN ~ret.ok
         ELSE ret.ok <=> /\ Field(MaskedStatus(log, 1), 7, 1) = 1
                         /\ Field(MaskedStatus(log, 1), 3, 1) = 0

\* startBurstMode(X | Z) returned failure on the status BURSTMODE | bit 3.
C14_Bit3Refused ==
  /\ Returned("startBurstMode") /\ ~ret.ok /\ ret.arg = <<10>>
  /\ ~TransportFailed(log, 1) /\ MaskedStatus(log, 1) = 136

\* The register a setter works on and the bits of its own field.
SetterReg(op) ==
  IF op = "setGain" THEN MLX90393_CONF1
  ELSE IF op = "setTrigInt" THEN MLX90393_CONF2
  ELSE MLX90393_CONF3
OwnBits(op, arg) ==
  CASE op = "setGain" -> {4, 5, 6}
    [] op = "setResolution" /\ arg[1] = MLX90393_X -> {5, 6}
    [] op = "setResolution" /\ arg[1] = MLX90393_Y -> {7, 8}
    [] op = "setResolution" /\ arg[1] = MLX90393_Z -> {9, 10}
    [] op = "setFilter" -> {2, 3, 4}
    [] op = "setOversampling" -> {0, 1}
    [] op = "setTrigInt" -> {15}

\* C15: whenever a setter (setGain, setResolution, setFilter,
\* setOversampling, setTrigInt) issues a register write, every bit of the
\* written word outside the setter's own field is the bit the register held
\* before the call, also when the register read before it failed.
C15_WriteKeepsOtherBits ==
  (pc = 0 /\ ret.op \in Setters \cup {"setTrigInt"}) =>
    \A i \in 1..Len(log) :
      (log[i].k = "write" /\ log[i].data[1] = MLX90393_REG_WR) =>
        \A bit \in (0..15) \ OwnBits(ret.op, ret.arg) :
          Field(WrittenWord(log[i]), bit, 1)
            = Field(ret.hw0[SetterReg(ret.op)], bit, 1)

\* C16 (as claimed): every call of transceive makes exactly one bus write
\* and exactly one bus read request, whatever the transport does.
C16_OneWriteOneRead ==
  Returned("transceive") =>
    /\ Cardinality({i \in 1..Len(log) : log[i].k = "write"}) = 1
    /\ Cardinality({i \in 1..Len(log) : log[i].k = "read"}) = 1

\* C16 (amended): every call of transceive makes exactly one bus write, of
\* txbuf; when that write is not acknowledged it makes no other bus call,
\* and otherwise it makes the inter-delay and then exactly one bus read
\* request, for rxlen + 1 bytes; nothing is repeated.
C16_OneWriteThenRead ==
  Returned("transceive") =>
    /\ log[1].k = "write" /\ log[1].data = ret.arg[1]
    /\ IF log[1].ok
         THEN /\ Len(log) = 3
              /\ log[2] = Delay(100 * ret.arg[3])
              /\ log[3].k = "read" /\ log[3].n = ret.arg[2] + 1
         ELSE Len(log) = 1

\* A transceive for 6 bytes with inter-delay 5 whose read came short.
C16_ShortReadOnce ==
  /\ Returned("transceive") /\ ret.arg[2] = 6 /\ ret.arg[3] = 5
  /\ Len(log) = 3 /\ ~log[3].ok /\ Len(log[3].data) = 6

\* The operations that are one transaction.
OneTransaction ==
  {"transceive", "readRegister", "writeRegister", "exitMode", "reset",
   "startBurstMode", "startSingleMeasurement", "readMeasurement",
   "readMeasurementAxes"}

\* C17: when the bus write is not acknowledged or fewer than rxlen + 1 bytes
\* arrive, transceive returns ERROR and leaves the caller's rxbuf as it was,
\* and readRegister, writeRegister, exitMode, reset, startBurstMode,
\* startSingleMeasurement and readMeasurement return failure.
C17_TransportFailure ==
  (pc = 0 /\ ret.op \in OneTransaction /\ log # <<>> /\ TransportFailed(log, 1)) =>
    /\ ~ret.ok
    /\ ret.op = "transceive" =>
         /\ ret.val = MLX90393_STATUS_ERROR
         /\ \A i \in 1..Len(ret.out) : ret.out[i] = -1
    /\ ret.op = "readRegister" => ret.val = ret.arg[2]
    /\ ret.op \in {"readMeasurement", "readMeasurementAxes"} =>
         \A i \in 1..Len(ret.out) : ret.out[i] = Stale

\* transceive returned ERROR and stored nothing for a read that delivered 6
\* of 7 bytes, the status byte 0x00 among them.
C17_ShortReadFails ==
  /\ Returned("transceive") /\ ret.arg[2] = 6
  /\ log[1].ok /\ ~log[3].ok /\ Len(log[3].data) = 6
  /\ log[3].data[1] = 0
  /\ ret.val = MLX90393_STATUS_ERROR /\ ret.out = <<-1, -1, -1, -1, -1, -1>>

SameReadAllAxes ==
  readMeasurement(
    Stale3,
    [ack |-> TRUE, miss |-> 0, sb |-> MeasRead.data[1],
     meas |-> SubSeq(MeasRead.data, 2, Len(MeasRead.data))],
    ret.before,
    [hw |-> ret.hw0, wrote |-> [r \in Regs |-> -1], log |-> <<>>, faults |-> 0])

\* C19: on the same handle and the same received bytes,
\* readMeasurement(X | Y | Z, buffer of 3) returns what
\* readMeasurement(x, y, z) returns and leaves in result[0..2] what that one
\* leaves in x, y, z (same count, same scale-factor index), after the same
\* bus calls; and for every mask within {X, Y, Z} a successful
\* readMeasurement(mask, result) writes exactly popcount(mask) results, the
\* k-th one for the k-th axis of the mask in the order X, Y, Z, from the
\* k-th received big-endian word, and leaves the rest of result as it was.
C19_VariantsAgree ==
  /\ (Returned("readMeasurementAxes") /\ ret.arg = <<MLX90393_AXIS_ALL, 3>>
        /\ ~TransportFailed(log, 1)) =>
       /\ ret.ok = SameReadAllAxes.ok
       /\ ret.out = SameReadAllAxes.out
       /\ log = SameReadAllAxes.b.log
  /\ (Returned("readMeasurementAxes") /\ ret.ok
        /\ ret.arg[1] \in {a \in 0..MLX90393_AXIS_ALL : a % 2 = 0}) =>
       /\ Len(ret.out) = ret.arg[2]
       /\ Len(AxesOf(ret.arg[1])) = popcount(ret.arg[1])
       /\ MeasRead.n = 2 * popcount(ret.arg[1]) + 1
       /\ \A k \in 1..Len(ret.out) :
            IF k <= popcount(ret.arg[1])
              THEN LET axis == AxesOf(ret.arg[1])[k]
                       res == resFromAxis(axis, ret.before)
                   IN /\ (ret.out[k].cnt - (RawWord(k) - Offset(res))) % 65536 = 0
                      /\ ret.out[k].cnt \in -32768..32767
                      /\ ret.out[k].g = ret.before.gain
                      /\ ret.out[k].r = res
                      /\ ret.out[k].z = IF axis = MLX90393_Z THEN 1 ELSE 0
              ELSE ret.out[k] = Stale

\* readMeasurement(X | Y | Z, buffer of 3) succeeded at the resolutions 18,
\* 19 and 16 bits on the words 0x0000, 0x4000, 0x8000.
C19_AllAxesBySpan ==
  /\ Returned("readMeasurementAxes") /\ ret.arg = <<MLX90393_AXIS_ALL, 3>>
  /\ ret.ok
  /\ ret.before.res_x = MLX90393_RES_18 /\ ret.before.res_y = MLX90393_RES_19
  /\ ret.before.res_z = MLX90393_RES_16
  /\ ret.out = <<Scaled(-32768, ret.before.gain, 2, 0),
                 Scaled(0, ret.before.gain, 3, 0),
                 Scaled(-32768, ret.before.gain, 0, 1)>>

\* C20: for every axes value without the temperature bit and every result
\* buffer that passes the size check, readMeasurement(axes, result) asks
\* transceive for no more payload bytes than the local buffer rx holds, so
\* rx is not overrun, and it writes no result at or beyond result's size.
C20_RxWithinBuffer ==
  (Returned("readMeasurementAxes") /\ ret.arg[1] % 2 = 0
     /\ ret.arg[2] >= popcount(ret.arg[1])) =>
    /\ Len(ret.out) = ret.arg[2]
    /\ ret.val = 0
    /\ log[1].ok => MeasRead.n - 1 <= RxSize

====
